---- MODULE Spec2Model ----
(***************************************************************************)
(* Odoo gateway: the connection lifecycle and the operation dispatch of    *)
(* the two front ends (stdio tool surface, main.py; HTTP surface,          *)
(* http_server.py) over the shared XML-RPC client (odoo_client.py).        *)
(*                                                                         *)
(* A handler runs atomically on the event loop up to its await of a        *)
(* blocking remote call (run_in_executor); the return of the remote call   *)
(* is a second step.  Other requests run between the two.                  *)
(***************************************************************************)
EXTENDS Integers, Sequences, FiniteSets, Bags, TLC

\* ------------------------------------------------------------------ bounds
MaxInflight == 2      \* requests suspended on a remote call at one time
MaxUid == 1           \* identities the remote endpoint can answer: 0..MaxUid
MaxRecords == 2       \* records a remote search_read can return at most


\* ------------------------------------------------------------ python values
UidNone == -1                          \* self.uid = None
None == << >>
Some(x) == <<x>>
Truthy(v) == v > 0                     \* None, False and 0 are falsy
TruthyStr(s) == s # ""
TruthyUrl(u) == u # << >>

\* x or y
OrStr(x, y) == IF TruthyStr(x) THEN x ELSE y
OrUrl(x, y) == IF TruthyUrl(x) THEN x ELSE y

\* url.rstrip('/')
RECURSIVE rstrip(_)
rstrip(u) ==
    IF u # << >> /\ u[Len(u)] = "/" THEN rstrip(SubSeq(u, 1, Len(u) - 1)) ELSE u

\* ------------------------------------------------------------------ inputs
CredA == [url |-> <<"a", "/">>, database |-> "dbA", username |-> "alice", password |-> "pwA"]
CredB == [url |-> <<"b">>, database |-> "dbB", username |-> "bob", password |-> "pwB"]
NoCred == [url |-> << >>, database |-> "", username |-> "", password |-> ""]

\* connection arguments a caller may send: complete, or with fields empty/absent
ConnectArgs ==
    {CredA, CredB, NoCred,
     [CredA EXCEPT !.url = << >>], [CredA EXCEPT !.database = ""],
     [CredA EXCEPT !.username = ""], [CredA EXCEPT !.password = ""]}

\* ODOO_URL, ODOO_DATABASE, ODOO_USERNAME, ODOO_PASSWORD ("" = unset)
Envs == {NoCred, [NoCred EXCEPT !.password = "pwE"]}

Models == {"res.partner"}
\* the value of args.get("model") when the caller sent no "model" key
Absent == "<absent>"
\* operations whose handler subscripts args["model"]
RequiresModel ==
    {"search", "create", "write", "unlink", "call", "get_fields", "count"}

\* names dispatched by handle_call_tool, in the order of its if/elif chain
ToolNames ==
    {"odoo_connect", "odoo_search", "odoo_create", "odoo_write", "odoo_unlink",
     "odoo_call", "odoo_get_models", "odoo_get_fields", "odoo_count",
     "odoo_update_lead_contact", "odoo_update_contact", "odoo_read_group",
     "web_search"}
\* names a caller may send that the chain does not know
OtherNames == {"odoo_delete", "odoo_read"}

\* the methods class OdooMCPServer has: the defs nested in the body of
\* _handle_count after its returns are never bound on the class
Methods ==
    {"_handle_connect", "_handle_search", "_handle_create", "_handle_write",
     "_handle_unlink", "_handle_call", "_handle_get_models",
     "_handle_get_fields", "_handle_count"}

\* the handler each branch of handle_call_tool calls
HandlerOf(name) ==
    CASE name = "odoo_connect" -> "_handle_connect"
      [] name = "odoo_search" -> "_handle_search"
      [] name = "odoo_create" -> "_handle_create"
      [] name = "odoo_write" -> "_handle_write"
      [] name = "odoo_unlink" -> "_handle_unlink"
      [] name = "odoo_call" -> "_handle_call"
      [] name = "odoo_get_models" -> "_handle_get_models"
      [] name = "odoo_get_fields" -> "_handle_get_fields"
      [] name = "odoo_count" -> "_handle_count"
      [] name = "odoo_update_lead_contact" -> "_handle_update_lead_contact"
      [] name = "odoo_update_contact" -> "_handle_update_contact"
      [] name = "odoo_read_group" -> "_handle_read_group"
      [] name = "web_search" -> "_handle_web_search"
      [] OTHER -> ""

\* the logical operation of a handler or endpoint
OpOf(handler) ==
    CASE handler = "_handle_connect" -> "connect"
      [] handler = "_handle_search" -> "search"
      [] handler = "_handle_create" -> "create"
      [] handler = "_handle_write" -> "write"
      [] handler = "_handle_unlink" -> "unlink"
      [] handler = "_handle_call" -> "call"
      [] handler = "_handle_get_models" -> "get_models"
      [] handler = "_handle_get_fields" -> "get_fields"
      [] handler = "_handle_count" -> "count"
      [] handler = "_handle_update_lead_contact" -> "update_lead_contact"
      [] handler = "_handle_update_contact" -> "update_contact"
      [] handler = "_handle_read_group" -> "read_group"
      [] handler = "_handle_web_search" -> "web_search"
      [] OTHER -> "unknown"

\* operations other than connect that the gateway names (section 6)
NonConnectOps ==
    {"search", "create", "write", "unlink", "call", "get_models", "get_fields",
     "count", "read_group"}

\* remote method and model of each OdooClient method
RemoteMethod(op) ==
    CASE op = "search" -> "search_read"
      [] op = "create" -> "create"
      [] op = "write" -> "write"
      [] op = "unlink" -> "unlink"
      [] op = "call" -> "name_get"
      [] op = "get_models" -> "search_read"
      [] op = "get_fields" -> "fields_get"
      [] op = "count" -> "search_count"
      [] op = "read_group" -> "read_group"
      [] OTHER -> ""
RemoteModel(op, model) == IF op = "get_models" THEN "ir.model" ELSE model

\* what a remote call can do: raise (fault) or return a value
AuthResults == [fault : {FALSE}, value : 0..MaxUid] \cup {[fault |-> TRUE, value |-> 0]}
ExecResults == [fault : BOOLEAN, value : {0}]

\* ------------------------------------------------------------------- state
VARIABLES
    surface,            \* which front end this process runs: "tool" | "http"
    env,                \* the four environment variables
    odoo_client,        \* the global / self.odoo_client: None or Some(client)
    connection_params,  \* None or Some(params)
    calls,              \* the bag of requests suspended on a remote call
    request,            \* the request the last step dispatched, if it was one
    reply,              \* what the last step returned to its caller, if anything
    wire,               \* the remote call the last step issued, if any
    connectedOnce       \* some connect has succeeded (history)

vars == <<surface, env, odoo_client, connection_params, calls, request, reply,
          wire, connectedOnce>>

\* a request suspended on a remote call.  pc: "auth" (connect, awaiting
\* authenticate) or "exec" (awaiting execute_kw); params: the resolved
\* parameters of a connect; owner: the OdooClient this connect created is the
\* one the gateway holds; overlap: another connect was suspended meanwhile
Call(pc, op, params, overlap, owner) ==
    [pc |-> pc, op |-> op, params |-> params, overlap |-> overlap, owner |-> owner]

Suspended == BagToSet(calls)
Connecting == {c \in Suspended : c.pc = "auth"}

Init ==
    /\ surface \in {"tool", "http"}
    /\ env \in Envs
    /\ odoo_client = None
    /\ connection_params = None
    /\ calls = EmptyBag
    /\ request = None
    /\ reply = None
    /\ wire = None
    /\ connectedOnce = FALSE

\* ------------------------------------------------------- OdooClient object
\* OdooClient.__init__.  The only code that writes an object after its
\* construction is the connect call that created it (the `owner` call while
\* the gateway holds the object).
OdooClient_init(p) ==
    [url |-> rstrip(p.url), database |-> p.database, username |-> p.username,
     password |-> p.password, uid |-> UidNone]

\* the call connect() submits: common.authenticate(database, username, password, {})
Authenticate(c) ==
    [service |-> "common", url |-> c.url, method |-> "authenticate",
     database |-> c.database, login |-> c.username, uid |-> UidNone,
     password |-> c.password, model |-> ""]

\* the call every other method submits:
\* models.execute_kw(database, uid, password, model, method, ...)
ExecuteKw(c, op, model) ==
    [service |-> "object", url |-> c.url, method |-> RemoteMethod(op),
     database |-> c.database, login |-> "", uid |-> c.uid,
     password |-> c.password, model |-> RemoteModel(op, model)]

\* (mutation: the method does not test its uid)
NotAuthenticated_skipped(c) == FALSE

\* `if not self.uid: raise Exception("Not authenticated")`
NotAuthenticated(c) == ~Truthy(c.uid)

\* (mutation: connect() does not test the identity it was given)
AuthenticationFailed_skipped(uid) == FALSE

\* `if not self.uid: raise Exception("Authentication failed")` in connect()
AuthenticationFailed(uid) == ~Truthy(uid)

\* (mutation: the remote call is made on the event loop itself, not handed to
\* the executor: no request runs while one call is pending)
CanSuspend_blocking == BagCardinality(calls) < 1

\* one more request may suspend: run_in_executor(None, ...) has a free worker
CanSuspend == BagCardinality(calls) < MaxInflight

\* --------------------------------------------------------------- responses
\* code: the HTTP status (0 on the tool surface, which returns text);
\* kind: the message template of the code; detail: str(e) where it has one;
\* params: the resolved parameters of a connect call; ret: the remote return
\* the step consumed
Response(op, code, kind, detail, params, ret) ==
    [op |-> op, code |-> code, kind |-> kind, detail |-> detail,
     params |-> params, ret |-> ret]

\* a request as a handler receives it: the logical operation, the connection
\* arguments of a connect, the "model" argument of any other operation
Request(op, args, model) == [op |-> op, args |-> args, model |-> model]

TextContent(op, kind, detail) == Response(op, 0, kind, detail, NoCred, None)
HTTPException(op, code, kind, detail) == Response(op, code, kind, detail, NoCred, None)

\* a handler that answers without suspending
Answer(r) ==
    /\ reply' = Some(r)
    /\ wire' = None
    /\ UNCHANGED <<surface, env, odoo_client, connection_params, calls,
                   connectedOnce>>

\* ---------------------------------------------------------------- connect
\* `x = args.get("x") or os.getenv("ODOO_X")`, four times
ResolveParams(args) ==
    [url |-> OrUrl(args.url, env.url),
     database |-> OrStr(args.database, env.database),
     username |-> OrStr(args.username, env.username),
     password |-> OrStr(args.password, env.password)]

\* (mutation: the parameters are not tested)
all_skipped(p) == TRUE

\* all([url, database, username, password])
all(p) ==
    /\ TruthyUrl(p.url)
    /\ TruthyStr(p.database)
    /\ TruthyStr(p.username)
    /\ TruthyStr(p.password)

\* odoo_client = OdooClient(...); await odoo_client.connect()  -- up to the await:
\* the gateway's client is assigned before the authentication is submitted, so
\* the connect calls already suspended no longer own the gateway's client
BeginConnect(p) ==
    /\ CanSuspend
    /\ LET c == OdooClient_init(p)
           disowned == {Call("auth", "connect", d.params, TRUE, FALSE) :
                           d \in {e \in Connecting : e.owner}}
           owners == {e \in Connecting : e.owner}
       IN  /\ odoo_client' = Some(c)
           /\ calls' = ((calls (-) SetToBag(owners)) (+) SetToBag(disowned))
                       (+) SetToBag({Call("auth", "connect", p, Connecting # {}, TRUE)})
           /\ wire' = Some(Authenticate(c))
           /\ reply' = None
           /\ UNCHANGED <<surface, env, connection_params, connectedOnce>>

\* OdooMCPServer._handle_connect, up to its await
handle_connect(args) ==
    LET p == ResolveParams(args) IN
    IF ~all(p)
      THEN Answer(Response("connect", 0, "MissingParameters", "", p, None))
      ELSE BeginConnect(p)

\* POST /connect, up to its await.  The HTTPException(400) is raised inside the
\* try and caught by `except Exception`, which raises HTTPException(500)
connect(req) ==
    /\ surface = "http"
    /\ request' = Some(Request("connect", req, ""))
    /\ LET p == ResolveParams(req) IN
       IF ~all(p)
         THEN Answer(Response("connect", 500, "ConnectionFailed",
                              "400: Missing connection parameters", p, None))
         ELSE BeginConnect(p)

\* the return of authenticate: the rest of OdooClient.connect (self.uid is
\* assigned when the call returns, then tested) and of the connect handler of
\* either surface (connection_params, the answer)
AuthReturn(r) ==
    \E c \in Connecting :
        /\ LET p == c.params
               raised == r.fault \/ AuthenticationFailed(r.value)
               detail == IF r.fault THEN "fault" ELSE "Authentication failed"
               code == IF surface = "http" THEN (IF raised THEN 500 ELSE 200) ELSE 0
           IN  /\ calls' = calls (-) SetToBag({c})
               /\ odoo_client' =
                    IF c.owner /\ ~r.fault
                      THEN Some([odoo_client[1] EXCEPT !.uid = r.value])
                      ELSE odoo_client
               /\ connection_params' = IF raised THEN connection_params ELSE Some(p)
               /\ connectedOnce' = (connectedOnce \/ ~raised)
               /\ reply' = Some(IF raised
                                  THEN Response("connect", code, "ConnectionFailed",
                                                detail, p, Some(r))
                                  ELSE Response("connect", code, "Success", "", p,
                                                Some(r)))
        /\ wire' = None
        /\ request' = None
        /\ UNCHANGED <<surface, env>>

\* ------------------------------------------------------ other operations
\* await self.odoo_client.<method>(...) up to the await: the method raises
\* when its uid is falsy, else submits execute_kw to the executor; `code` is
\* the status the surface gives to an exception of the method
Invoke(op, model, code) ==
    LET c == odoo_client[1] IN
    IF NotAuthenticated(c)
      THEN Answer(Response(op, code, "OperationFailed", "Not authenticated",
                           NoCred, None))
      ELSE /\ CanSuspend
           /\ calls' = calls (+) SetToBag({Call("exec", op, NoCred, FALSE, FALSE)})
           /\ wire' = Some(ExecuteKw(c, op, model))
           /\ reply' = None
           /\ UNCHANGED <<surface, env, odoo_client, connection_params,
                          connectedOnce>>

\* `if not self.odoo_client: return [TextContent("Not connected to Odoo...")]`,
\* then the call of the client method inside the try of the handler
HandleOp(op, model) ==
    IF odoo_client = None
      THEN Answer(TextContent(op, "NotConnected", ""))
    \* args["model"] is evaluated before the method is called: KeyError('model'),
    \* caught by the except of the handler, "<Op> failed: 'model'"
    ELSE IF op \in RequiresModel /\ model = Absent
      THEN Answer(TextContent(op, "OperationFailed", "KeyError: model"))
      ELSE Invoke(op, model, 0)

handle_search(model) == HandleOp("search", model)
handle_create(model) == HandleOp("create", model)
handle_write(model) == HandleOp("write", model)
handle_unlink(model) == HandleOp("unlink", model)
handle_call(model) == HandleOp("call", model)
handle_get_models(model) == HandleOp("get_models", model)
handle_get_fields(model) == HandleOp("get_fields", model)
handle_count(model) == HandleOp("count", model)

\* (mutation: the else branch raises, and the except of the dispatcher answers)
UnknownTool_raised(name) == TextContent(name, "Error", "Unknown tool")

\* the else branch of handle_call_tool
UnknownTool(name) == TextContent(name, "UnknownTool", "")

\* (mutation: the dispatcher has no except clause, the exception reaches the
\* caller of handle_call_tool)
DispatcherExcept_absent(op, e) == Response(op, 0, "Raised", e, NoCred, None)

\* `except Exception as e: return [TextContent(text=f"Error: {str(e)}")]`
DispatcherExcept(op, e) == TextContent(op, "Error", e)

\* the logical operation a tool name stands for (the name itself when the
\* chain does not know it)
ToolOp(name) == IF name \in ToolNames THEN OpOf(HandlerOf(name)) ELSE name

\* the dispatcher of the tool surface
handle_call_tool(name, arguments, model) ==
    /\ surface = "tool"
    /\ request' = Some(Request(ToolOp(name), arguments, model))
    /\ LET h == HandlerOf(name) IN
       IF name \notin ToolNames
         THEN Answer(UnknownTool(name))
       ELSE IF h \notin Methods
         \* self._handle_x raises AttributeError, caught by the except of the
         \* dispatcher: "Error: ..."
         THEN Answer(DispatcherExcept(OpOf(h), "AttributeError"))
       ELSE CASE h = "_handle_connect" -> handle_connect(arguments)
              [] h = "_handle_search" -> handle_search(model)
              [] h = "_handle_create" -> handle_create(model)
              [] h = "_handle_write" -> handle_write(model)
              [] h = "_handle_unlink" -> handle_unlink(model)
              [] h = "_handle_call" -> handle_call(model)
              [] h = "_handle_get_models" -> handle_get_models(model)
              [] h = "_handle_get_fields" -> handle_get_fields(model)
              [] h = "_handle_count" -> handle_count(model)

\* check_connection() raises HTTPException(400) when `not odoo_client`
check_connection == odoo_client = None

\* an endpoint other than /connect: check_connection(), then the call of the
\* client method inside the try, whose except raises HTTPException(500)
HttpOp(op, model) ==
    /\ surface = "http"
    /\ request' = Some(Request(op, NoCred, model))
    /\ IF check_connection
         THEN Answer(HTTPException(op, 400, "NotConnected", ""))
         ELSE Invoke(op, model, 500)

search(model) == HttpOp("search", model)
create(model) == HttpOp("create", model)
write(model) == HttpOp("write", model)
unlink(model) == HttpOp("unlink", model)
call_method(model) == HttpOp("call", model)
get_models(model) == HttpOp("get_models", model)
get_fields(model) == HttpOp("get_fields", model)
count(model) == HttpOp("count", model)

\* "connected": odoo_client is not None
connected == odoo_client # None
\* the body GET / and GET /health return
Liveness(op) ==
    Response(op, 200, "Alive",
             IF connected THEN "connected: true" ELSE "connected: false",
             NoCred, None)

\* GET /
root ==
    /\ surface = "http"
    /\ request' = Some(Request("root", NoCred, ""))
    /\ Answer(Liveness("root"))

\* GET /health
health ==
    /\ surface = "http"
    /\ request' = Some(Request("health", NoCred, ""))
    /\ Answer(Liveness("health"))

\* (mutation: the handler swallows the exception of the client method and
\* drops the client)
ExecReturn_dropped(r) ==
    \E c \in Suspended :
        /\ c.pc = "exec"
        /\ calls' = calls (-) SetToBag({c})
        /\ reply' = Some(Response(c.op, IF surface = "http" THEN 200 ELSE 0,
                                  "Success", "", NoCred, Some(r)))
        /\ odoo_client' = IF r.fault THEN None ELSE odoo_client
        /\ wire' = None
        /\ request' = None
        /\ UNCHANGED <<surface, env, connection_params, connectedOnce>>

\* the return of execute_kw: the rest of the client method and of the handler
ExecReturn(r) ==
    \E c \in Suspended :
        /\ c.pc = "exec"
        /\ calls' = calls (-) SetToBag({c})
        /\ reply' = Some(IF r.fault
                           THEN Response(c.op, IF surface = "http" THEN 500 ELSE 0,
                                         "OperationFailed", "fault", NoCred, Some(r))
                           ELSE Response(c.op, IF surface = "http" THEN 200 ELSE 0,
                                         "Success", "", NoCred, Some(r)))
        /\ wire' = None
        /\ request' = None
        /\ UNCHANGED <<surface, env, odoo_client, connection_params, connectedOnce>>

Next ==
    \/ \E a \in ConnectArgs : handle_call_tool("odoo_connect", a, "")
    \/ \E name \in (ToolNames \cup OtherNames) \ {"odoo_connect"}, m \in Models :
          handle_call_tool(name, NoCred, m)
    \* a request without "model", for the handlers that read it
    \/ \E name \in {n \in ToolNames : ToolOp(n) \in RequiresModel} :
          handle_call_tool(name, NoCred, Absent)
    \/ root
    \/ health
    \/ \E a \in ConnectArgs : connect(a)
    \/ \E m \in Models : search(m)
    \/ \E m \in Models : create(m)
    \/ \E m \in Models : write(m)
    \/ \E m \in Models : unlink(m)
    \/ \E m \in Models : call_method(m)
    \/ \E m \in Models : get_models(m)
    \/ \E m \in Models : get_fields(m)
    \/ \E m \in Models : count(m)
    \/ \E r \in AuthResults : AuthReturn(r)
    \/ \E r \in ExecResults : ExecReturn(r)

Spec == Init /\ [][Next]_vars

\* ------------------------------------------------------------ vocabulary
\* status = Connected: the gateway holds a client with a truthy session identity
Connected == odoo_client # None /\ Truthy(odoo_client[1].uid)
\* the session identity of the connection state
SessionId == IF odoo_client # None THEN odoo_client[1].uid ELSE UidNone

TypeOK ==
    /\ surface \in {"tool", "http"}
    /\ env \in Envs
    /\ Len(odoo_client) <= 1
    /\ IsABag(calls) /\ BagCardinality(calls) <= MaxInflight
    /\ \A c \in Suspended : c.pc \in {"auth", "exec"}
    /\ \A c \in Connecting : c.owner =>
          /\ CopiesIn(c, calls) = 1
          /\ odoo_client = Some(OdooClient_init(c.params))
    /\ Cardinality({c \in Connecting : c.owner}) <= 1
    /\ Len(reply) <= 1 /\ Len(wire) <= 1 /\ Len(connection_params) <= 1
    /\ Len(request) <= 1

\* ------------------------------------------------------------------ claims
Replied == reply # None
Called == wire # None
\* the last step answered a connect call whose authentication returned or raised
AuthAnswered(rp) == rp # None /\ rp[1].op = "connect" /\ rp[1].ret # None
\* the client OdooClient(...) that a connect call with parameters p creates,
\* once its authentication has returned the identity u
ClientOf(p, u) == [OdooClient_init(p) EXCEPT !.uid = u]

\* C1: every operation other than connect, invoked in a state reached without
\* any successful connect, yields the NotConnected outcome and issues no
\* remote call.
C1_NotConnectedBeforeConnect ==
    ~connectedOnce =>
        /\ Replied /\ reply[1].op \in NonConnectOps =>
              /\ reply[1].kind = "NotConnected"
              /\ reply[1].ret = None
        /\ Called => wire[1].method = "authenticate"

\* C2: no remote call other than the authentication of connect is issued by a
\* client whose session identity is absent or falsy: a call on the object
\* service carries the truthy identity of the gateway's client.
C2_NoCallWithoutSession ==
    Called /\ wire[1].service = "object" =>
        /\ Truthy(wire[1].uid)
        /\ Connected
        /\ wire[1].uid = odoo_client[1].uid
\* an operation reaches the remote endpoint while a connect call is suspended
C2_Witness ==
    /\ Called /\ wire[1].service = "object"
    /\ Connecting # {}

\* C3: once Connected the gateway stays Connected, whatever request comes
\* later (a later connect that succeeds, fails or is still in flight).
C3_ConnectedStable == [][Connected => Connected']_vars

\* C4: the session identity of the connection state changes only as the
\* effect of a connect whose authentication succeeded, and the status becomes
\* Connected only so (an absent and a falsy identity count as the same).
C4_SessionOnlyBySuccessfulConnect ==
    [][(IF Connected THEN SessionId ELSE 0) # (IF Connected' THEN SessionId' ELSE 0)
         => AuthAnswered(reply') /\ reply'[1].kind = "Success"]_vars

\* C5: a connect call with all four credentials whose authentication returns
\* a truthy identity reports success, leaves the gateway Connected with that
\* identity stored; the HTTP surface answers 200 only in that case.
C5_SuccessfulConnect ==
    /\ AuthAnswered(reply) /\ ~reply[1].ret[1].fault /\ Truthy(reply[1].ret[1].value) =>
          /\ reply[1].kind = "Success"
          /\ Connected
          /\ SessionId = reply[1].ret[1].value
    /\ Replied /\ reply[1].op = "connect" /\ reply[1].code = 200 =>
          /\ AuthAnswered(reply) /\ ~reply[1].ret[1].fault
          /\ Truthy(reply[1].ret[1].value)
          /\ all(reply[1].params)

\* C6: a connect call in which one of url, database, username, password is
\* absent, the environment giving no value for it, yields the
\* MissingParameter outcome and issues no remote call.
C6_MissingParameter ==
    Replied /\ reply[1].op = "connect" /\ ~all(reply[1].params) =>
        /\ reply[1].kind = "MissingParameters"
        /\ reply[1].ret = None
        /\ ~Called

\* C7: a connect whose authentication returns a falsy identity ends in the
\* error "Authentication failed", one whose remote call raises ends in the
\* error carrying the fault; neither reports success, makes the gateway
\* Connected or writes connection_params.
C7_FailedConnectIsError ==
    [][AuthAnswered(reply') /\
         (reply'[1].ret[1].fault \/ ~Truthy(reply'[1].ret[1].value)) =>
          /\ reply'[1].kind = "ConnectionFailed"
          /\ reply'[1].code # 200
          /\ reply'[1].detail =
               (IF reply'[1].ret[1].fault THEN "fault" ELSE "Authentication failed")
          /\ Connected' => Connected /\ odoo_client' = odoo_client
          /\ connection_params' = connection_params]_vars
\* an authentication refused after an earlier connect had succeeded
C7_Witness ==
    /\ AuthAnswered(reply)
    /\ reply[1].detail = "Authentication failed"
    /\ connectedOnce
    /\ ~Connected

\* C8: after a successful reconnect (a connect that succeeds when a
\* connection state already exists) every field of the connection state is
\* the one of that connect.
C8_ReconnectReplacesAll ==
    [][connection_params # None /\ AuthAnswered(reply') /\ reply'[1].kind = "Success" =>
          /\ odoo_client' = Some(ClientOf(reply'[1].params, reply'[1].ret[1].value))
          /\ connection_params' = Some(reply'[1].params)]_vars

\* C9: when two connect calls overlap, the connection state used afterwards
\* is the one of the call that completes last, whatever the order of starts.
C9_LaterCompletionWins ==
    [][\A c \in Connecting :
          /\ c.overlap
          /\ calls' = calls (-) SetToBag({c})
          /\ \A d \in BagToSet(calls') : d.pc # "auth"
          /\ AuthAnswered(reply') /\ reply'[1].kind = "Success"
          => odoo_client' = Some(ClientOf(c.params, reply'[1].ret[1].value))]_vars

\* C10: dispatching a name that is not registered returns the unknown-tool
\* result, issues no remote call and leaves the connection state unchanged.
C10_UnknownOperation ==
    [][Replied' /\ reply'[1].op \in OtherNames =>
          /\ reply'[1].kind = "UnknownTool"
          /\ ~Called'
          /\ odoo_client' = odoo_client
          /\ connection_params' = connection_params
          /\ calls' = calls]_vars
\* an unknown name dispatched while Connected, a remote call being pending
C10_Witness ==
    /\ Replied /\ reply[1].op \in OtherNames
    /\ Connected
    /\ \E c \in Suspended : c.pc = "exec"

\* the last step dispatched a request (it answered it or suspended on its call)
Dispatched == request # None
\* the answer names the field `f` as the parameter that is missing
NamesMissing(r, f) ==
    \/ r.kind = "MissingParameter" /\ r.detail = f
    \/ r.detail = "KeyError: " \o f

\* C11: dispatching a registered operation whose arguments lack the required
\* parameter "model" is answered at once by an outcome that names the missing
\* field, and no remote call is issued, whatever the connection state is.
C11_MissingRequiredParameter ==
    Dispatched /\ surface = "tool" /\ request[1].op \in RequiresModel
               /\ request[1].model = Absent =>
        /\ Replied
        /\ NamesMissing(reply[1], "model")
        /\ ~Called

\* the texts the tool surface returns (an exception that leaves the dispatcher
\* is no text)
TextKinds ==
    {"Success", "MissingParameters", "NotConnected", "ConnectionFailed",
     "OperationFailed", "Error", "UnknownTool"}

\* C12: on the tool surface every step of an invocation, for any name, any
\* arguments, any connection state and any remote outcome, either suspends on
\* its one remote call or returns a text result; a dispatch that issues no
\* call answers at once, the return of a remote call (value or fault) answers,
\* and no answer is an exception that left the dispatcher.
C12_ToolAlwaysReturnsText ==
    [][surface = "tool" =>
          /\ Replied' \/ (Dispatched' /\ Called'
                              /\ BagCardinality(calls') = BagCardinality(calls) + 1)
          /\ ~Dispatched' => Replied' /\ reply'[1].ret # None
          /\ Replied' => reply'[1].kind \in TextKinds /\ reply'[1].code = 0]_vars
\* the handler of a published tool is missing: the dispatcher caught the
\* exception and answered with its text
C12_Witness ==
    /\ surface = "tool"
    /\ Replied /\ reply[1].kind = "Error" /\ reply[1].detail = "AttributeError"
    /\ Connected

\* the classes of HTTP status
ClientError(code) == code \in 400..499
ServerError(code) == code \in 500..599

\* C13: on the HTTP surface an operation other than connect that is invoked
\* while the gateway is not Connected (no connect yet, connect failed, connect
\* in flight) is answered at once with a 4xx status, never with a 5xx one.
C13_NotConnectedIsClientError ==
    [][surface = "http" /\ ~Connected /\ Dispatched'
          /\ request'[1].op \in NonConnectOps =>
          /\ Replied'
          /\ ClientError(reply'[1].code)
          /\ ~ServerError(reply'[1].code)]_vars

\* C14: on the HTTP surface a connect request one of whose parameters is
\* empty, the environment giving no value for it, is answered with a 4xx
\* status, never with a 5xx one.
C14_MissingParameterIsClientError ==
    surface = "http" /\ Dispatched /\ request[1].op = "connect"
                     /\ ~all(ResolveParams(request[1].args)) =>
        /\ Replied
        /\ ClientError(reply[1].code)
        /\ ~ServerError(reply[1].code)

\* ------------------------------------------------- the two surfaces compared
\* the operations of the tool surface that section 6 names
SharedOps ==
    {"connect", "search", "create", "write", "unlink", "call", "get_models",
     "get_fields", "count", "read_group"}
\* the operations that have a POST endpoint
Endpoints ==
    {"connect", "search", "create", "write", "unlink", "call", "get_models",
     "get_fields", "count"}
\* the tool name of an operation
ToolName(op) == "odoo_" \o op

\* what a dispatch does before it awaits or returns: the kind of its answer
\* ("Suspended" when it awaits a remote call instead) and the call it issued
Outcome(kind, call) == [kind |-> kind, call |-> call]
\* the method of the client, up to its await
MethodOutcome(op, model) ==
    IF NotAuthenticated(odoo_client[1])
      THEN Outcome("OperationFailed", None)
      ELSE Outcome("Suspended", Some(ExecuteKw(odoo_client[1], op, model)))
\* handle_call_tool(name, arguments) in the current state
ToolOutcome(name, args, model) ==
    LET h == HandlerOf(name)
        p == ResolveParams(args)
    IN  IF name \notin ToolNames THEN Outcome("UnknownTool", None)
        ELSE IF h \notin Methods THEN Outcome("Error", None)
        ELSE IF h = "_handle_connect"
          THEN IF ~all(p) THEN Outcome("MissingParameters", None)
               ELSE Outcome("Suspended", Some(Authenticate(OdooClient_init(p))))
        ELSE IF odoo_client = None THEN Outcome("NotConnected", None)
        ELSE IF OpOf(h) \in RequiresModel /\ model = Absent
          THEN Outcome("OperationFailed", None)
        ELSE MethodOutcome(OpOf(h), model)
\* the endpoint of `op` in the current state
HttpOutcome(op, args, model) ==
    LET p == ResolveParams(args)
    IN  IF op = "connect"
          THEN IF ~all(p) THEN Outcome("ConnectionFailed", None)
               ELSE Outcome("Suspended", Some(Authenticate(OdooClient_init(p))))
        ELSE IF check_connection THEN Outcome("NotConnected", None)
        ELSE MethodOutcome(op, model)

\* what the last step did, in the same terms
Observed == Outcome(IF Replied THEN reply[1].kind ELSE "Suspended", wire)
\* every dispatch does what ToolOutcome and HttpOutcome say of its surface
DispatchIsOutcome ==
    [][Dispatched' /\ request'[1].op \notin {"root", "health"} =>
          Observed' =
            (IF surface = "tool"
               THEN ToolOutcome(IF request'[1].op \in OtherNames THEN request'[1].op
                                ELSE IF request'[1].op = "web_search" THEN "web_search"
                                ELSE ToolName(request'[1].op),
                                request'[1].args, request'[1].model)
               ELSE HttpOutcome(request'[1].op, request'[1].args,
                                request'[1].model))]_vars

\* C15: every operation of the tool surface has an HTTP endpoint, and in every
\* connection state the same operation with the same arguments has the same
\* outcome on both surfaces: the same remote call, or an answer of the same
\* kind.
C15_SurfacesAgree ==
    \A op \in SharedOps :
        /\ op \in Endpoints
        /\ \A args \in (IF op = "connect" THEN ConnectArgs ELSE {NoCred}),
              m \in (IF op = "connect" THEN {""} ELSE Models) :
              ToolOutcome(ToolName(op), args, m) = HttpOutcome(op, args, m)

\* C16: the `connected` flag that GET /health and GET / report is true exactly
\* when the gateway holds a session identity obtained from a successful
\* authentication: false before any connect, after a failed connect and
\* while a connect is in flight.
C16_ConnectedFlagIsConnected ==
    Replied /\ reply[1].op \in {"root", "health"} =>
        (reply[1].detail = "connected: true" <=> Connected)

\* the operations published by handle_list_tools that work on the connection
PublishedOps ==
    {"search", "create", "write", "unlink", "call", "get_models", "get_fields",
     "count", "update_lead_contact", "update_contact", "read_group"}
\* the remote method the handler of a published operation calls
PublishedMethod(op) ==
    IF op \in {"update_lead_contact", "update_contact"} THEN "write"
    ELSE RemoteMethod(op)

\* C17: every published operation of the tool surface reaches its handler:
\* invoked while not Connected it answers NotConnected, invoked while
\* Connected with its arguments present it issues its remote call, and it
\* never answers with the fault of a handler that is missing.
C17_PublishedToolsDispatched ==
    [][surface = "tool" /\ Dispatched' /\ request'[1].op \in PublishedOps =>
          /\ ~(Replied' /\ reply'[1].kind = "Error")
          /\ ~Connected => Replied' /\ reply'[1].kind = "NotConnected"
          /\ Connected /\ request'[1].model # Absent =>
                /\ Called'
                /\ wire'[1].method = PublishedMethod(request'[1].op)]_vars

\* the step dispatched `op` while Connected with its arguments present
InvokedConnected(ops) ==
    /\ Dispatched' /\ request'[1].op \in ops /\ request'[1].model # Absent
    /\ Connected
\* the step issued the one remote call of the operation it dispatched, and
\* suspended on it
OneCallIssued ==
    /\ Called'
    /\ wire' = Some(ExecuteKw(odoo_client[1], request'[1].op, request'[1].model))
    /\ calls' = calls (+) SetToBag({Call("exec", request'[1].op, NoCred, FALSE, FALSE)})
\* the step answered an operation from the return of its remote call (value
\* or fault): it consumed that call and issued no other
ReturnNotRetried ==
    ~Dispatched' /\ Replied' /\ reply'[1].op # "connect" =>
        /\ ~Called'
        /\ reply'[1].ret # None
        /\ calls (-) calls' = SetToBag({Call("exec", reply'[1].op, NoCred, FALSE, FALSE)})
        /\ BagCardinality(calls') = BagCardinality(calls) - 1

\* C18: every operation other than connect that is invoked while Connected
\* with its arguments present issues exactly one remote call: the dispatch
\* submits it (also when the same request was answered before), and the
\* return of the call, value or fault, submits no other.
C18_ExactlyOneRemoteCall ==
    [][/\ InvokedConnected(NonConnectOps) => OneCallIssued
       /\ ReturnNotRetried]_vars
\* the same, for the operations whose handler the surface has
OneCallPerHandledOp ==
    [][/\ InvokedConnected(NonConnectOps \ {"read_group"}) => OneCallIssued
       /\ ReturnNotRetried]_vars

\* ------------------------------------------------- search, with its result
\* The search operation in detail: the limit argument, the keyword arguments
\* of the remote call, the list the remote endpoint returns and the body the
\* surface builds from it.
NoLimit == -1                          \* the request has no "limit"
DefaultLimit == 100                    \* args.get("limit", 100); Field(default=100)
Limits == {NoLimit, 0, 1, 2}
RecordIds == {"r1", "r2"}
\* the lists of records the remote endpoint may return
Lists == UNION {[1..n -> RecordIds] : n \in 0..MaxRecords}
SearchResults ==
    [fault : {FALSE}, value : Lists] \cup {[fault |-> TRUE, value |-> << >>]}

\* limit=args.get("limit", 100) / limit=request.limit with its default
LimitOf(limit) == IF limit = NoLimit THEN DefaultLimit ELSE limit

\* execute_kw(database, uid, password, model, 'search_read', [domain],
\*            {'fields': fields, 'limit': limit})
SearchReadKw(c, model, limit) ==
    [service |-> "object", url |-> c.url, method |-> "search_read",
     database |-> c.database, login |-> "", uid |-> c.uid,
     password |-> c.password, model |-> model, limit |-> limit]

\* (mutation: the count is not taken from the list that is returned)
SearchBody_fixedcount(code, r) ==
    [op |-> "search", code |-> code, kind |-> "Success", detail |-> "",
     params |-> NoCred, ret |-> Some(r), count |-> MaxRecords,
     records |-> r.value]

\* {"status": "success", "count": len(result), "records": result};
\* f"Found {len(result)} records: {result}"
SearchBody(code, r) ==
    [op |-> "search", code |-> code, kind |-> "Success", detail |-> "",
     params |-> NoCred, ret |-> Some(r), count |-> Len(r.value),
     records |-> r.value]

\* a search suspended on its remote call, with the limit the call carries
SearchCall(limit) ==
    [pc |-> "exec", op |-> "search", params |-> NoCred, overlap |-> FALSE,
     owner |-> FALSE, limit |-> limit]

\* OdooClient.search_read, up to its await
search_read(model, limit) ==
    LET c == odoo_client[1] IN
    IF NotAuthenticated(c)
      THEN Answer(Response("search", IF surface = "http" THEN 500 ELSE 0,
                           "OperationFailed", "Not authenticated", NoCred, None))
      ELSE /\ CanSuspend
           /\ calls' = calls (+) SetToBag({SearchCall(limit)})
           /\ wire' = Some(SearchReadKw(c, model, limit))
           /\ reply' = None
           /\ UNCHANGED <<surface, env, odoo_client, connection_params,
                          connectedOnce>>

\* _handle_search(args) and POST /search, up to the await
SearchRequest(model, limit) ==
    /\ request' = Some([op |-> "search", args |-> NoCred, model |-> model,
                        limit |-> limit])
    /\ IF odoo_client = None
         THEN Answer(IF surface = "http"
                       THEN HTTPException("search", 400, "NotConnected", "")
                       ELSE TextContent("search", "NotConnected", ""))
         ELSE search_read(model, LimitOf(limit))

\* the return of the remote search_read: the rest of the method and of the
\* handler of either surface
SearchReturn(r) ==
    \E c \in Suspended :
        /\ c.pc = "exec"
        /\ calls' = calls (-) SetToBag({c})
        /\ reply' = Some(IF r.fault
                           THEN Response("search", IF surface = "http" THEN 500 ELSE 0,
                                         "OperationFailed", "fault", NoCred, Some(r))
                           ELSE SearchBody(IF surface = "http" THEN 200 ELSE 0, r))
        /\ wire' = None
        /\ request' = None
        /\ UNCHANGED <<surface, env, odoo_client, connection_params, connectedOnce>>

NextSearch ==
    \/ \E a \in {CredA, CredB} : handle_call_tool("odoo_connect", a, "")
    \/ \E a \in {CredA, CredB} : connect(a)
    \/ \E r \in AuthResults : AuthReturn(r)
    \/ \E m \in Models, n \in Limits : SearchRequest(m, n)
    \/ \E r \in SearchResults : SearchReturn(r)

SpecSearch == Init /\ [][NextSearch]_vars

\* C19: a successful search returns the list of records as the remote
\* endpoint returned it, with a count equal to the length of that list; the
\* remote call carries the limit of the request (100 when it has none), and
\* when the remote endpoint returned at most that many records so does the
\* search.
C19_SearchReturnsRemoteList ==
    [][/\ Dispatched' /\ request'[1].op = "search" /\ Called' =>
             wire'[1].limit = (IF request'[1].limit = NoLimit THEN DefaultLimit
                                ELSE request'[1].limit)
       /\ \A c \in Suspended :
             /\ c.pc = "exec"
             /\ calls' = calls (-) SetToBag({c})
             /\ Replied' /\ reply'[1].kind = "Success"
             => /\ reply'[1].records = reply'[1].ret[1].value
                /\ reply'[1].count = Len(reply'[1].records)
                /\ Len(reply'[1].ret[1].value) <= c.limit
                      => reply'[1].count <= c.limit]_vars
\* a search with limit 1 returned the one record the remote endpoint sent,
\* while another search was pending
C19_Witness ==
    /\ Replied /\ reply[1].op = "search" /\ reply[1].kind = "Success"
    /\ reply[1].count = 1
    /\ \E c \in Suspended : c.pc = "exec" /\ c.limit = 1

\* ---------------------------------------------------------- concurrency
\* The gateway under one environment and one set of credentials: the requests
\* of every operation of either surface, interleaved with the returns of
\* their remote calls.
PoolArgs == {CredB, NoCred}
InitPool == Init /\ env = NoCred
NextPool ==
    \/ \E a \in PoolArgs : handle_call_tool("odoo_connect", a, "")
    \/ \E name \in (ToolNames \cup OtherNames) \ {"odoo_connect"}, m \in Models :
          handle_call_tool(name, NoCred, m)
    \/ root
    \/ health
    \/ \E a \in PoolArgs : connect(a)
    \/ \E op \in Endpoints \ {"connect"}, m \in Models : HttpOp(op, m)
    \/ \E r \in AuthResults : AuthReturn(r)
    \/ \E r \in ExecResults : ExecReturn(r)
SpecPool == InitPool /\ [][NextPool]_vars

\* some remote call is pending, and the worker pool has a free slot
Pending == Suspended # {}
FreeSlot == BagCardinality(calls) < MaxInflight
\* every operation of the surface can be dispatched now (a connect with all
\* its parameters and one without, every other name with its model)
Accepted ==
    /\ surface = "tool" =>
          /\ \A a \in PoolArgs : ENABLED handle_call_tool("odoo_connect", a, "")
          /\ \A name \in (ToolNames \cup OtherNames) \ {"odoo_connect"},
                m \in Models :
                ENABLED handle_call_tool(name, NoCred, m)
    /\ surface = "http" =>
          /\ ENABLED root /\ ENABLED health
          /\ \A a \in PoolArgs : ENABLED connect(a)
          /\ \A op \in Endpoints \ {"connect"}, m \in Models : ENABLED HttpOp(op, m)
\* a request that the guards reject (no client, no session identity, a
\* connection parameter missing) can be dispatched now
RejectedAccepted ==
    /\ surface = "tool" =>
          /\ ENABLED handle_call_tool("odoo_connect", NoCred, "")
          /\ ~Connected => \A op \in Endpoints \ {"connect"}, m \in Models :
                ENABLED handle_call_tool(ToolName(op), NoCred, m)
    /\ surface = "http" =>
          /\ ENABLED connect(NoCred)
          /\ ~Connected => \A op \in Endpoints \ {"connect"}, m \in Models :
                ENABLED HttpOp(op, m)

\* C20: while remote calls are pending, every other request is accepted as
\* long as the worker pool has a free slot, and a request that the guards
\* reject is accepted and answered even when it has none, without taking a
\* slot; each pending call can return whatever the others do, and its return
\* answers its own operation and leaves the other pending calls pending.
C20_PendingCallDoesNotStall ==
    /\ [](/\ Pending /\ FreeSlot => Accepted
          /\ Pending /\ ~FreeSlot => RejectedAccepted
          /\ Pending => \/ ENABLED (\E r \in AuthResults : AuthReturn(r))
                        \/ ENABLED (\E r \in ExecResults : ExecReturn(r)))
    /\ [][/\ Dispatched' /\ Replied' => calls' = calls
          /\ ~Dispatched' /\ Replied' =>
                \E c \in Suspended :
                   /\ c.op = reply'[1].op
                   /\ calls' = calls (-) SetToBag({c})]_vars
\* an operation returned its own result while the call of another operation,
\* issued before it, was still pending
C20_Witness ==
    /\ Replied /\ ~Dispatched /\ reply[1].kind = "Success"
    /\ \E c \in Suspended : c.pc = "exec" /\ c.op # reply[1].op

\* ---------------------------------------------- the methods of OdooClient
\* The methods of the client in detail: their parameters with the defaults of
\* the signature, the positional and keyword arguments of the execute_kw call
\* they submit, and what they return.
\*
\* A python value that may be None is None or Some(v); an argument of a call
\* is None when the caller does not pass it, else Some(the python value).
Default(arg, d) == IF arg = None THEN d ELSE arg[1]
\* `x or []` for a list that may be None
OrList(x) == IF x = None THEN << >> ELSE x[1]
\* the ways a caller passes a parameter that takes the python values `vals`
Passed(vals) == {None, Some(None)} \cup {Some(Some(v)) : v \in vals}

\* A python dict is the sequence of its <<key, value>> items, in the order of
\* insertion.
Keys(d) == {d[i][1] : i \in 1..Len(d)}
Item(d, k) == d[CHOOSE i \in 1..Len(d) : d[i][1] = k][2]

\* {k: v for k, v in d.items() if v is not None}
NotNoneItems(d) ==
    LET kept == SelectSeq(d, LAMBDA item : item[2] # None)
    IN  [i \in 1..Len(kept) |-> <<kept[i][1], kept[i][2][1]>>]

\* execute_kw(database, uid, password, model, method, args[, kwargs]);
\* kwargs is None when the call passes no seventh argument
ExecuteKwArgs(c, model, method, args, kwargs) ==
    [args |-> args, database |-> c.database, kwargs |-> kwargs, login |-> "",
     method |-> method, model |-> model, password |-> c.password,
     service |-> "object", uid |-> c.uid, url |-> c.url]

\* a method call suspended on its remote call; `filter` is the local
\* filter_pattern of get_models (None in every other method)
MethodCall(op, filter) ==
    [filter |-> filter, op |-> op, overlap |-> FALSE, owner |-> FALSE,
     params |-> NoCred, pc |-> "exec"]

\* the call of a method of the client: `passed` is what the caller passed
\* for the parameters after `model`, in the order of the signature
MethodRequest(op, model, passed) ==
    [args |-> NoCred, model |-> model, op |-> op, passed |-> passed]

\* a method of the client up to its await: `if not self.uid: raise
\* Exception("Not authenticated")`, else the execute_kw call is submitted
Method(op, model, passed, method, args, kwargs, filter) ==
    LET c == odoo_client[1] IN
    /\ request' = Some(MethodRequest(op, model, passed))
    /\ IF NotAuthenticated(c)
         THEN Answer(Response(op, 0, "Raised", "Not authenticated", NoCred, None))
         ELSE /\ CanSuspend
              /\ calls' = calls (+) SetToBag({MethodCall(op, filter)})
              /\ wire' = Some(ExecuteKwArgs(c, model, method, args, kwargs))
              /\ reply' = None
              /\ UNCHANGED <<surface, env, odoo_client, connection_params,
                             connectedOnce>>

\* (mutation: the comprehension tests `if v`: a limit of 0 and a lazy of False
\* are dropped like None)
ReadGroupKwargs_truthy(limit, orderby, lazy) ==
    NotNoneItems(<< <<"limit", IF limit = Some(0) THEN None ELSE limit>>,
                    <<"orderby", orderby>>,
                    <<"lazy", IF lazy = Some(FALSE) THEN None ELSE lazy>> >>)

\* the keyword arguments of read_group
ReadGroupKwargs(limit, orderby, lazy) ==
    NotNoneItems(<< <<"limit", limit>>, <<"orderby", orderby>>, <<"lazy", lazy>> >>)

\* OdooClient.read_group(model, domain=None, fields=None, groupby=None,
\*                       limit=100, orderby=None, lazy=True)
OdooClient_read_group(model, domain, fields, groupby, limit, orderby, lazy) ==
    Method("read_group", model,
           <<domain, fields, groupby, limit, orderby, lazy>>,
           "read_group",
           <<OrList(Default(domain, None)), OrList(Default(fields, None)),
             OrList(Default(groupby, None))>>,
           Some(ReadGroupKwargs(Default(limit, Some(DefaultLimit)),
                                Default(orderby, None),
                                Default(lazy, Some(TRUE)))),
           None)

\* the values the callers pass
DomainArgs == Passed({<<"d">>})
FieldsArgs == Passed({<<"f">>})
GroupbyArgs == Passed({<<"g">>})
LimitArgs == Passed({0, 1})
OrderbyArgs == Passed({"name"})
LazyArgs == Passed({FALSE})

\* the client a caller holds: constructed and never connected (uid None),
\* refused by authenticate (uid False), or authenticated
ClientsUnderTest == {ClientOf(CredA, u) : u \in {UidNone} \cup 0..MaxUid}
InitClient ==
    /\ surface = "tool"
    /\ env = NoCred
    /\ odoo_client \in {Some(c) : c \in ClientsUnderTest}
    /\ connection_params = (IF Connected THEN Some(CredA) ELSE None)
    /\ calls = EmptyBag
    /\ request = None
    /\ reply = None
    /\ wire = None
    /\ connectedOnce = Connected

\* the return of the remote call of a method other than get_models: the
\* method returns the result as it is, or raises what the call raised
MethodReturn(r) ==
    \E c \in Suspended :
        /\ c.pc = "exec" /\ c.op # "get_models"
        /\ calls' = calls (-) SetToBag({c})
        /\ reply' = Some(IF r.fault
                           THEN Response(c.op, 0, "Raised", "fault", NoCred, Some(r))
                           ELSE Response(c.op, 0, "Returned", "", NoCred, Some(r)))
        /\ wire' = None
        /\ request' = None
        /\ UNCHANGED <<surface, env, odoo_client, connection_params, connectedOnce>>

NextReadGroup ==
    \/ \E m \in Models, d \in DomainArgs, f \in FieldsArgs, g \in GroupbyArgs,
          n \in LimitArgs, o \in OrderbyArgs, z \in LazyArgs :
          OdooClient_read_group(m, d, f, g, n, o, z)
    \/ \E r \in ExecResults : MethodReturn(r)

SpecReadGroup == InitClient /\ [][NextReadGroup]_vars

\* the last step submitted the remote call of the method `op`
Submitted(op) == Dispatched /\ request[1].op = op /\ Called
\* what the caller of the last step passed for the i-th parameter after
\* `model`: None when it passed nothing, else Some(the python value)
passed(i) == request[1].passed[i]

\* C21: read_group issues the remote method read_group with the positional
\* arguments [domain, fields, groupby], each the empty list when it is not
\* given or None, and with keyword arguments that hold exactly those of
\* limit, orderby, lazy whose value is not None, where orderby is None when
\* it is not given, limit 100 and lazy true.
C21_ReadGroupArguments ==
    Submitted("read_group") =>
        LET limit == IF passed(4) = None THEN Some(DefaultLimit) ELSE passed(4)[1]
            orderby == IF passed(5) = None THEN None ELSE passed(5)[1]
            lazy == IF passed(6) = None THEN Some(TRUE) ELSE passed(6)[1]
            kw == wire[1].kwargs[1]
        IN  /\ wire[1].method = "read_group"
            /\ wire[1].model = request[1].model
            /\ Len(wire[1].args) = 3
            /\ \A i \in 1..3 :
                  wire[1].args[i] =
                    (IF passed(i) \in {None, Some(None)} THEN << >>
                     ELSE passed(i)[1][1])
            /\ wire[1].kwargs # None
            /\ Keys(kw) = (IF limit # None THEN {"limit"} ELSE {})
                             \cup (IF orderby # None THEN {"orderby"} ELSE {})
                             \cup (IF lazy # None THEN {"lazy"} ELSE {})
            /\ Len(kw) = Cardinality(Keys(kw))
            /\ limit # None => Item(kw, "limit") = limit[1]
            /\ orderby # None => Item(kw, "orderby") = orderby[1]
            /\ lazy # None => Item(kw, "lazy") = lazy[1]
\* a read_group with a limit of 0 and lazy False and no orderby: both are
\* passed on, orderby is not
C21_Witness ==
    /\ Submitted("read_group")
    /\ passed(1) = Some(None)
    /\ passed(4) = Some(Some(0))
    /\ passed(5) = None
    /\ passed(6) = Some(Some(FALSE))

\* ------------------------------------------------- the fixed operations
\* the values the callers pass
ValuesArgs == {<< >>, << <<"name", "x">> >>}
IdsArgs == {<<1>>, <<1, 2>>}
MethodNames == {"name_get", "action_done"}
ArgsArgs == Passed({<<1>>})
KwargsArgs == Passed({<< <<"context", "c">> >>})

\* (mutation: the limit is not passed on)
SearchReadItems_nolimit(fields, limit) == << <<"fields", fields>> >>

\* {'fields': fields, 'limit': limit}; the limit is the python value, None or
\* Some(n)
SearchReadItems(fields, limit) == << <<"fields", fields>>, <<"limit", limit>> >>

\* OdooClient.search_read(model, domain=None, fields=None, limit=100)
OdooClient_search_read(model, domain, fields, limit) ==
    Method("search_read", model, <<domain, fields, limit>>, "search_read",
           <<OrList(Default(domain, None))>>,
           Some(SearchReadItems(OrList(Default(fields, None)),
                                Default(limit, Some(DefaultLimit)))),
           None)

\* OdooClient.create(model, values)
OdooClient_create(model, values) ==
    Method("create", model, <<values>>, "create", <<values>>, None, None)

\* OdooClient.write(model, ids, values)
OdooClient_write(model, ids, values) ==
    Method("write", model, <<ids, values>>, "write", <<ids, values>>, None, None)

\* OdooClient.unlink(model, ids)
OdooClient_unlink(model, ids) ==
    Method("unlink", model, <<ids>>, "unlink", <<ids>>, None, None)

\* OdooClient.call_method(model, method, args=None, kwargs=None)
OdooClient_call_method(model, method, args, kwargs) ==
    Method("call_method", model, <<method, args, kwargs>>, method,
           OrList(Default(args, None)), Some(OrList(Default(kwargs, None))),
           None)

\* OdooClient.get_fields(model)
OdooClient_get_fields(model) ==
    Method("get_fields", model, << >>, "fields_get", << >>, Some(<< >>), None)

\* OdooClient.count(model, domain=None)
OdooClient_count(model, domain) ==
    Method("count", model, <<domain>>, "search_count",
           <<OrList(Default(domain, None))>>, None, None)

NextMethods ==
    \/ \E m \in Models, d \in DomainArgs, f \in FieldsArgs, n \in LimitArgs :
          OdooClient_search_read(m, d, f, n)
    \/ \E m \in Models, v \in ValuesArgs : OdooClient_create(m, v)
    \/ \E m \in Models, ids \in IdsArgs, v \in ValuesArgs : OdooClient_write(m, ids, v)
    \/ \E m \in Models, ids \in IdsArgs : OdooClient_unlink(m, ids)
    \/ \E m \in Models, name \in MethodNames, a \in ArgsArgs, k \in KwargsArgs :
          OdooClient_call_method(m, name, a, k)
    \/ \E m \in Models : OdooClient_get_fields(m)
    \/ \E m \in Models, d \in DomainArgs : OdooClient_count(m, d)
    \/ \E r \in ExecResults : MethodReturn(r)

SpecMethods == InitClient /\ [][NextMethods]_vars

\* the list the method passes for an optional list parameter
ListGiven(i) == IF passed(i) \in {None, Some(None)} THEN << >> ELSE passed(i)[1][1]
\* the submitted call names `method` of the request's model, with the
\* positional arguments `args` and the keyword arguments `kwargs` (None: no
\* keyword arguments are passed)
Issues(method, args, kwargs) ==
    /\ wire[1].service = "object"
    /\ wire[1].method = method
    /\ wire[1].model = request[1].model
    /\ wire[1].args = args
    /\ wire[1].kwargs = kwargs
\* the submitted call carries the database, session id and password of the
\* client, which is authenticated
OwnCredentials ==
    /\ Connected
    /\ wire[1].url = odoo_client[1].url
    /\ wire[1].database = odoo_client[1].database
    /\ wire[1].uid = odoo_client[1].uid
    /\ wire[1].password = odoo_client[1].password

\* C22: each fixed operation issues its remote method with the argument
\* shape of the calling convention and the database, session id and password
\* of the connected client: search_read with [domain] and {fields, limit}
\* (domain and fields empty and limit 100 when not given), create with
\* [values], write with [ids, values], unlink with [ids], count as
\* search_count with [domain], get_fields as fields_get, call_method with the
\* caller's method name, args and kwargs (empty when not given).
C22_FixedOperationArguments ==
    /\ (Dispatched /\ Called) => OwnCredentials
    /\ Submitted("search_read") =>
          Issues("search_read", <<ListGiven(1)>>,
                 Some(<< <<"fields", ListGiven(2)>>,
                         <<"limit", IF passed(3) = None THEN Some(DefaultLimit)
                                    ELSE passed(3)[1]>> >>))
    /\ Submitted("create") => Issues("create", <<passed(1)>>, None)
    /\ Submitted("write") => Issues("write", <<passed(1), passed(2)>>, None)
    /\ Submitted("unlink") => Issues("unlink", <<passed(1)>>, None)
    /\ Submitted("count") => Issues("search_count", <<ListGiven(1)>>, None)
    /\ Submitted("get_fields") => Issues("fields_get", << >>, Some(<< >>))
    /\ Submitted("call_method") =>
          Issues(passed(1), ListGiven(2), Some(ListGiven(3)))
\* a search_read with a domain and without a limit, by the client of the
\* highest session id: the call carries the limit 100
C22_Witness ==
    /\ Submitted("search_read")
    /\ passed(3) = None
    /\ passed(1) = Some(Some(<<"d">>))
    /\ Item(wire[1].kwargs[1], "limit") = Some(DefaultLimit)
    /\ wire[1].uid = MaxUid

\* ------------------------------------------------------------ get_models
\* A python string is the sequence of its characters.
\* str.lower(), over the characters in use
LowerChar(ch) == CASE ch = "R" -> "r" [] ch = "E" -> "e" [] OTHER -> ch
Lower(str) == [i \in 1..Len(str) |-> LowerChar(str[i])]
\* sub in str
Contains(sub, str) ==
    \E i \in 0..(Len(str) - Len(sub)) :
        \A j \in 1..Len(sub) : str[i + j] = sub[j]

\* the technical names and the display names of the remote models, and the
\* filters the callers pass
TechnicalNames == {<<"r", "e">>, <<"x">>}
DisplayNames == {<<"R", "e">>, <<"x">>}
Filters == {<< >>, <<"r">>, <<"R", "E">>, <<"x">>}
FilterArgs == Passed(Filters)
\* the entries of ir.model with the fields ['model', 'name', 'info'], and the
\* lists of them the remote endpoint may return
ModelEntries == [info : {""}, model : TechnicalNames, name : DisplayNames]
ModelLists == UNION {[1..n -> ModelEntries] : n \in 0..MaxRecords}
ModelsResults ==
    [fault : {FALSE}, value : ModelLists] \cup {[fault |-> TRUE, value |-> << >>]}

\* (mutation: the comprehension is skipped, the whole list is returned)
FilterModels_unfiltered(filter_pattern, models) == models

\* if filter_pattern:
\*     models = [m for m in models if filter_pattern.lower() in m['model'].lower()]
FilterModels(filter_pattern, models) ==
    IF filter_pattern # None /\ filter_pattern[1] # << >>
      THEN SelectSeq(models, LAMBDA m : Contains(Lower(filter_pattern[1]), Lower(m.model)))
      ELSE models

\* {"status": "success", "count": len(models), "models": models};
\* f"Available models: {json.dumps(models, indent=2)}".  `filter` is the
\* filter_pattern of the call that is answered.
ModelsBody(filter, r, models) ==
    [op |-> "get_models", code |-> IF surface = "http" THEN 200 ELSE 0,
     kind |-> "Success", detail |-> "", params |-> NoCred, ret |-> Some(r),
     filter |-> filter,
     count |-> IF surface = "http" THEN Some(Len(models)) ELSE None,
     models |-> models]

\* OdooClient.get_models(filter_pattern=None), up to its await
OdooClient_get_models(filter) ==
    Method("get_models", "ir.model", <<filter>>, "search_read", << << >> >>,
           Some(<< <<"fields", <<"model", "name", "info">> >> >>),
           Default(filter, None))

\* the return of the remote search_read on ir.model: the rest of get_models
\* and of the handler of either surface
ModelsReturn(r) ==
    \E c \in Suspended :
        /\ c.pc = "exec" /\ c.op = "get_models"
        /\ calls' = calls (-) SetToBag({c})
        /\ reply' = Some(IF r.fault
                           THEN Response("get_models", IF surface = "http" THEN 500 ELSE 0,
                                         "OperationFailed", "fault", NoCred, Some(r))
                           ELSE ModelsBody(c.filter, r, FilterModels(c.filter, r.value)))
        /\ wire' = None
        /\ request' = None
        /\ UNCHANGED <<surface, env, odoo_client, connection_params, connectedOnce>>

\* a gateway of either surface that holds a client
InitModels ==
    /\ surface \in {"tool", "http"}
    /\ env = NoCred
    /\ odoo_client \in {Some(c) : c \in ClientsUnderTest}
    /\ connection_params = (IF Connected THEN Some(CredA) ELSE None)
    /\ calls = EmptyBag
    /\ request = None
    /\ reply = None
    /\ wire = None
    /\ connectedOnce = Connected

NextModels ==
    \/ \E f \in FilterArgs : OdooClient_get_models(f)
    \/ \E r \in ModelsResults : ModelsReturn(r)

SpecModels == InitModels /\ [][NextModels]_vars

\* the last step answered a get_models with the list it returns
ModelsAnswered == Replied /\ reply[1].op = "get_models" /\ reply[1].kind = "Success"
\* the filter is None or the empty string
NoFilter(filter) == filter = None \/ filter[1] = << >>

ModelsFilteredByModel ==
    ModelsAnswered =>
        LET f == reply[1].filter
            remote == reply[1].ret[1].value
        IN  /\ reply[1].models =
                 (IF NoFilter(f) THEN remote
                  ELSE SelectSeq(remote,
                                 LAMBDA m : Contains(Lower(f[1]), Lower(m.model))))
            /\ surface = "http" => reply[1].count = Some(Len(reply[1].models))
\* a filter that differs in case from the one entry it selects out of two
ModelsFiltered_Witness ==
    /\ ModelsAnswered
    /\ reply[1].filter = Some(<<"R", "E">>)
    /\ Len(reply[1].ret[1].value) = 2
    /\ Len(reply[1].models) = 1

\* ------------------------------------------- connection state, continued
\* the answer `rp` is the success of a connect call
ConnectSucceeded(rp) == AuthAnswered(rp) /\ rp[1].kind = "Success"
\* the client of the connect call that `rp` answers, with the identity its
\* authentication returned
ClientAnswered(rp) == ClientOf(rp[1].params, rp[1].ret[1].value)

\* C24: whenever a connect call returns success the gateway is at that
\* moment Connected with the credentials and the session identity of that
\* call, and an operation requested as the very next step submits its remote
\* call under them, also when other connect calls were in flight.
C24_SuccessIsConnected ==
    [][/\ ConnectSucceeded(reply') =>
             /\ Connected'
             /\ odoo_client' = Some(ClientAnswered(reply'))
       /\ /\ ConnectSucceeded(reply)
          /\ Dispatched' /\ request'[1].op \in RequiresModel
          /\ request'[1].model # Absent
          => /\ Called'
             /\ wire' = Some(ExecuteKw(ClientAnswered(reply), request'[1].op,
                                       request'[1].model))]_vars

\* C25: whenever connection_params is set and the client is authenticated,
\* connection_params holds the url, database, username and password of the
\* client (the url up to the trailing slashes the constructor strips), and
\* connection_params is written only by a connect that succeeded.
C25_ParamsMatchClient ==
    [][/\ connection_params' # None /\ Connected' =>
             odoo_client'[1] = ClientOf(connection_params'[1], odoo_client'[1].uid)
       /\ connection_params' # connection_params =>
             /\ ConnectSucceeded(reply')
             /\ connection_params' = Some(reply'[1].params)]_vars
\* What holds of connection_params: it is written only by a connect that
\* succeeded, with the parameters of that connect
ParamsOnlyBySuccessfulConnect ==
    [][connection_params' # connection_params =>
          /\ ConnectSucceeded(reply')
          /\ connection_params' = Some(reply'[1].params)]_vars

\* the connect request `req` lacks a connection parameter: neither the
\* arguments nor the environment give it
Unset(req) ==
    \/ req.url = << >> /\ env.url = << >>
    \/ req.database = "" /\ env.database = ""
    \/ req.username = "" /\ env.username = ""
    \/ req.password = "" /\ env.password = ""
\* the step left the connection state as it was
ConnectionUnchanged ==
    /\ odoo_client' = odoo_client
    /\ connection_params' = connection_params
    /\ Connected => Connected' /\ SessionId' = SessionId

\* C26: a connect call that lacks a connection parameter is rejected at once
\* and leaves the connection state unchanged: the client, its session
\* identity and connection_params are the ones of before, no call is
\* submitted or abandoned, and a Connected gateway stays Connected.
C26_RejectedConnectChangesNothing ==
    [][Dispatched' /\ request'[1].op = "connect" /\ Unset(request'[1].args) =>
          /\ Replied' /\ reply'[1].kind # "Success" /\ reply'[1].ret = None
          /\ ~Called'
          /\ calls' = calls
          /\ ConnectionUnchanged]_vars
\* a connect without its database, rejected while the gateway is Connected
\* and a remote call is pending
C26_Witness ==
    /\ Dispatched /\ request[1].op = "connect"
    /\ request[1].args = [CredA EXCEPT !.database = ""]
    /\ Replied /\ reply[1].ret = None
    /\ Connected
    /\ Suspended # {}

\* the answer `rp` comes from a remote call of an operation that raised
FaultAnswered(rp) ==
    rp # None /\ rp[1].op # "connect" /\ rp[1].ret # None /\ rp[1].ret[1].fault

\* C27: an operation other than connect whose remote call raises answers
\* with an error that carries the message of the fault and leaves the
\* connection state unchanged; an operation dispatched as the next step of a
\* Connected gateway submits its remote call again.
C27_FaultChangesNothing ==
    [][/\ FaultAnswered(reply') =>
             /\ reply'[1].kind = "OperationFailed"
             /\ reply'[1].detail = "fault"
             /\ reply'[1].code = (IF surface = "http" THEN 500 ELSE 0)
             /\ ~Called'
             /\ ConnectionUnchanged
       /\ /\ FaultAnswered(reply) /\ Connected
          /\ Dispatched' /\ request'[1].op \in RequiresModel
          /\ request'[1].model # Absent
          => /\ Called'
             /\ wire' = Some(ExecuteKw(odoo_client[1], request'[1].op,
                                       request'[1].model))]_vars
\* a fault answered while the gateway is Connected
C27_Witness ==
    /\ FaultAnswered(reply)
    /\ Connected
    /\ connection_params # None

====
